---- MODULE Spec2Model ----
(***************************************************************************)
(* The copy-to-clipboard augmentation of assets/js/copy.js (lines 1-29):   *)
(* on DOMContentLoaded every `pre code` element of the document gets a     *)
(* button; a click on the button reads the code element's innerText and    *)
(* hands it to navigator.clipboard.writeText; when that promise fulfils    *)
(* the button shows "Copied!" and a 2000 ms timeout puts "Copy" back.      *)
(*                                                                         *)
(* The document is a tree of nodes held in a sequence (node 1 is <body>);  *)
(* the browser's event loop is one action per callback that it runs.       *)
(*                                                                         *)
(* Lines 31-567 of the file are tutorial text, not script.  The model is   *)
(* of the listener of lines 1-29, run as a script of its own.              *)
(***************************************************************************)
EXTENDS Integers, Sequences, FiniteSets, Bags, TLC

\* Bounds of the model.
MaxShapes == 2     \* top-level fragments of the rendered page
MaxClicks == 2     \* click events the user dispatches in one behaviour
MaxRuns == 2       \* times the page includes the script

\* Program constants.
DELAY == 2000                    \* copy.js:17  setTimeout(..., 2000)
CopyLabel == "Copy"              \* copy.js:8 and copy.js:16
CopiedLabel == "Copied!"         \* copy.js:14
ButtonClass == "copy-button"     \* copy.js:7
ContainerClass == "code-container"   \* copy.js:23

\* Granularity of the clock: time passes in steps of DELAY / 2.
TickMs == DELAY \div 2

\* Values of the model's own.
NoParent == 0
Never == -1
Texts == {"", "int x;"}

VARIABLES
    dom,              \* the document: Seq of nodes [tag, cls, parent, kids, text]
    dom0,             \* the document as the host rendered it (never changes)
    listeners,        \* DOMContentLoaded listeners registered and not yet run
    runs,             \* how often the listener of line 1 has run
    lateScript,       \* whether the script ran after DOMContentLoaded was dispatched
    controls,         \* the closures of forEach: Seq of [copyButton, codeBlock]
    clipboardPresent, \* whether navigator.clipboard is an object
    requests,         \* bag of pending writeText promises [ctl, text]
    timers,           \* FIFO of pending timeouts [ctl, rem]: rem = ms still to wait
    hostErrors,       \* what reached the window: [error, unhandledrejection] counts
    clicks,           \* click events dispatched so far
    elapsed           \* per control [first, last]: ms since its first / latest fulfilment

vars == <<dom, dom0, listeners, runs, lateScript, controls, clipboardPresent,
          requests, timers, hostErrors, clicks, elapsed>>

----------------------------------------------------------------------------
(* The document.                                                           *)

Node(tag, cls, parent, kids, text) ==
    [tag |-> tag, cls |-> cls, parent |-> parent, kids |-> kids, text |-> text]

Body == <<Node("body", "", NoParent, <<>>, "")>>

\* The fragments a rendered page is made of; each is a subtree whose root gets
\* the id k+1 and hangs under <body> (node 1).
Shapes == {"plain", "wrapped", "lead", "wrappedLead", "inner", "boxed", "twin",
           "inline", "barePre", "nested"}

Shape(s, k) ==
    CASE s = "plain" ->          \* <pre><code>T</code></pre>
           << Node("pre", "", 1, <<k+2>>, ""),
              Node("code", "", k+1, <<k+3>>, ""),
              Node("#text", "", k+2, <<>>, "int x;") >>
      [] s = "wrapped" ->        \* <div class="code-container"><pre><code>T</code></pre></div>
           << Node("div", ContainerClass, 1, <<k+2>>, ""),
              Node("pre", "", k+1, <<k+3>>, ""),
              Node("code", "", k+2, <<k+4>>, ""),
              Node("#text", "", k+3, <<>>, "int x;") >>
      [] s = "lead" ->           \* <pre><span>1</span><code>T</code></pre>
           << Node("pre", "", 1, <<k+2, k+3>>, ""),
              Node("span", "", k+1, <<>>, ""),
              Node("code", "", k+1, <<k+4>>, ""),
              Node("#text", "", k+3, <<>>, "int x;") >>
      [] s = "wrappedLead" ->    \* <div class="code-container"><span></span><pre><code>T</code></pre></div>
           << Node("div", ContainerClass, 1, <<k+2, k+3>>, ""),
              Node("span", "", k+1, <<>>, ""),
              Node("pre", "", k+1, <<k+4>>, ""),
              Node("code", "", k+3, <<k+5>>, ""),
              Node("#text", "", k+4, <<>>, "int x;") >>
      [] s = "inner" ->          \* <pre><span><code>T</code></span></pre>
           << Node("pre", "", 1, <<k+2>>, ""),
              Node("span", "", k+1, <<k+3>>, ""),
              Node("code", "", k+2, <<k+4>>, ""),
              Node("#text", "", k+3, <<>>, "int x;") >>
      [] s = "boxed" ->          \* <div class="highlight"><pre><code>T</code></pre></div>
           << Node("div", "highlight", 1, <<k+2>>, ""),
              Node("pre", "", k+1, <<k+3>>, ""),
              Node("code", "", k+2, <<k+4>>, ""),
              Node("#text", "", k+3, <<>>, "int x;") >>
      [] s = "twin" ->           \* <div class="code-container"><pre><code>T</code><code>T</code></pre></div>
           << Node("div", ContainerClass, 1, <<k+2>>, ""),
              Node("pre", "", k+1, <<k+3, k+5>>, ""),
              Node("code", "", k+2, <<k+4>>, ""),
              Node("#text", "", k+3, <<>>, "int x;"),
              Node("code", "", k+2, <<k+6>>, ""),
              Node("#text", "", k+5, <<>>, "int x;") >>
      [] s = "inline" ->         \* <p><code>T</code></p>: no <pre> above the code
           << Node("p", "", 1, <<k+2>>, ""),
              Node("code", "", k+1, <<k+3>>, ""),
              Node("#text", "", k+2, <<>>, "int x;") >>
      [] s = "barePre" ->        \* <pre>T</pre>: no <code> in the pre
           << Node("pre", "", 1, <<k+2>>, ""),
              Node("#text", "", k+1, <<>>, "int x;") >>
      [] s = "nested" ->         \* <pre><code>T<code>T</code></code></pre>
           << Node("pre", "", 1, <<k+2>>, ""),
              Node("code", "", k+1, <<k+3, k+4>>, ""),
              Node("#text", "", k+2, <<>>, "int x;"),
              Node("code", "", k+2, <<k+5>>, ""),
              Node("#text", "", k+4, <<>>, "int x;") >>

RECURSIVE Build(_, _)
Build(shapes, d) ==
    IF shapes = <<>> THEN d
    ELSE LET k == Len(d)
         IN Build(Tail(shapes),
                  [d EXCEPT ![1].kids = Append(@, k + 1)] \o Shape(Head(shapes), k))

Pages(shapes) == { Build(ss, Body) : ss \in UNION { [1..n -> shapes] : n \in 0..MaxShapes } }

\* Every page of at most MaxShapes fragments, and the pages whose fragments are
\* the two that the site's markdown renderer and its layout produce.
Documents == Pages(Shapes)
LiveDocuments == Pages({"plain", "wrapped"})

----------------------------------------------------------------------------
(* The DOM operations the script calls.                                    *)

RECURSIVE HasAncestor(_, _, _)
HasAncestor(d, n, tag) ==
    LET p == d[n].parent
    IN IF p = NoParent THEN FALSE
       ELSE d[p].tag = tag \/ HasAncestor(d, p, tag)

\* The subtree of n in document (pre-)order.
RECURSIVE DocOrder(_, _)
RECURSIVE DocOrderAll(_, _)
DocOrder(d, n) == <<n>> \o DocOrderAll(d, d[n].kids)
DocOrderAll(d, ns) ==
    IF ns = <<>> THEN <<>> ELSE DocOrder(d, Head(ns)) \o DocOrderAll(d, Tail(ns))

\* Variants of the selector: 'pre > code' (children of a pre only) and 'code'
\* (every code element).
QuerySelectorAllChild(d) ==
    LET Matches(n) == d[n].tag = "code" /\ d[d[n].parent].tag = "pre"
    IN SelectSeq(DocOrder(d, 1), Matches)

QuerySelectorAllCode(d) ==
    LET Matches(n) == d[n].tag = "code"
    IN SelectSeq(DocOrder(d, 1), Matches)

\* document.querySelectorAll('pre code'): a static list, in document order, of
\* the code elements that have a pre element among their ancestors.
QuerySelectorAll(d) ==
    LET Matches(n) == d[n].tag = "code" /\ HasAncestor(d, n, "pre")
    IN SelectSeq(DocOrder(d, 1), Matches)

\* element.innerText, as the run of the text it renders: the text nodes (and
\* the labels of buttons, whose textContent the model keeps in the button's own
\* text field) below n in document order; an empty text renders nothing.
RECURSIVE InnerText(_, _)
RECURSIVE InnerTextAll(_, _)
InnerText(d, n) ==
    IF d[n].tag \in {"#text", "button"}
    THEN IF d[n].text = "" THEN <<>> ELSE <<d[n].text>>
    ELSE InnerTextAll(d, d[n].kids)
InnerTextAll(d, ns) ==
    IF ns = <<>> THEN <<>> ELSE InnerText(d, Head(ns)) \o InnerTextAll(d, Tail(ns))

IndexOf(s, x) == CHOOSE i \in 1..Len(s) : s[i] = x

\* A variant of lines 24 and 26 with replaceChild for insertBefore: new takes
\* the place of ref, which leaves the document.
ReplaceChild(d, parent, new, ref) ==
    LET ks == d[parent].kids
        i == IndexOf(ks, ref)
    IN [d EXCEPT ![parent].kids = SubSeq(ks, 1, i - 1) \o <<new>> \o SubSeq(ks, i + 1, Len(ks)),
                 ![new].parent = parent,
                 ![ref].parent = NoParent]

\* parent.insertBefore(new, ref): new becomes the child right before ref.
InsertBefore(d, parent, new, ref) ==
    LET ks == d[parent].kids
        i == IndexOf(ks, ref)
    IN [d EXCEPT ![parent].kids = SubSeq(ks, 1, i - 1) \o <<new>> \o SubSeq(ks, i, Len(ks)),
                 ![new].parent = parent]

\* classList.contains(name): an element of this model carries at most one class.
ClassListContains(d, n, name) == d[n].cls = name

----------------------------------------------------------------------------
(* The DOMContentLoaded listener, copy.js lines 1-29.                      *)

\* A variant of lines 6-8 that leaves the textContent out.
CreateButtonNoLabel(d) == Append(d, Node("button", ButtonClass, NoParent, <<>>, ""))

\* Lines 6-8: createElement('button'), className, textContent.  The new node
\* gets the next free id and is not in the tree yet.
CreateButton(d) == Append(d, Node("button", ButtonClass, NoParent, <<>>, CopyLabel))

\* A variant of the placement: the button made the first child of whichever
\* parent the branch picks.
PlaceFirstChild(d, copyButton, codeBlock) ==
    LET pre == d[codeBlock].parent
        into == IF ClassListContains(d, d[pre].parent, ContainerClass)
                THEN d[pre].parent ELSE pre
    IN InsertBefore(d, into, copyButton, Head(d[into].kids))

\* Lines 22-27: where the button goes.
Place(d, copyButton, codeBlock) ==
    LET pre == d[codeBlock].parent
    IN IF ClassListContains(d, d[pre].parent, ContainerClass)
       THEN InsertBefore(d, d[pre].parent, copyButton, pre)
       ELSE InsertBefore(d, pre, copyButton, codeBlock)

\* A variant of lines 5-27 that leaves alone a code block that has a control.
AttachOnce(st, codeBlock) ==
    IF \E c \in 1..Len(st.controls) : st.controls[c].codeBlock = codeBlock
    THEN st
    ELSE LET copyButton == Len(st.dom) + 1
         IN [dom |-> Place(CreateButton(st.dom), copyButton, codeBlock),
             controls |-> Append(st.controls,
                                 [copyButton |-> copyButton, codeBlock |-> codeBlock])]

\* Lines 5-27: the body of forEach for one code block.  The click listener of
\* line 11 closes over copyButton and codeBlock: that pair is the control.
Attach(st, codeBlock) ==
    LET copyButton == Len(st.dom) + 1
    IN [dom |-> Place(CreateButton(st.dom), copyButton, codeBlock),
        controls |-> Append(st.controls,
                            [copyButton |-> copyButton, codeBlock |-> codeBlock])]

\* Line 4: codeBlocks.forEach(...), over the static list of line 2.
RECURSIVE ForEach(_, _)
ForEach(codeBlocks, st) ==
    IF codeBlocks = <<>> THEN st
    ELSE ForEach(Tail(codeBlocks), Attach(st, Head(codeBlocks)))

\* A variant of lines 2-4 that walks a list shifting by one under every
\* insertion: every other code block is skipped.
OnDOMContentLoadedSkipping(d, ctls) ==
    LET all == QuerySelectorAll(d)
        odd == [i \in 1..((Len(all) + 1) \div 2) |-> all[2 * i - 1]]
    IN ForEach(odd, [dom |-> d, controls |-> ctls])

\* A variant of lines 2-4 whose list holds every code block twice.
OnDOMContentLoadedTwice(d, ctls) ==
    ForEach(QuerySelectorAll(d) \o QuerySelectorAll(d), [dom |-> d, controls |-> ctls])

\* Lines 1-28: the listener.
OnDOMContentLoaded(d, ctls) ==
    ForEach(QuerySelectorAll(d), [dom |-> d, controls |-> ctls])

----------------------------------------------------------------------------
(* The callbacks of one control, copy.js lines 11-19.                      *)

Request(c, text) == [ctl |-> c, text |-> text]

\* A variant of line 17 with half the delay.
TimerHalf(c) == [ctl |-> c, rem |-> DELAY \div 2]

\* Lines 15-17: setTimeout(callback, 2000).
Timer(c) == [ctl |-> c, rem |-> DELAY]

\* A variant of line 12 that reads the text when the pass ran, not at the click.
ReadTextAtLoad(d, ctls, c) == InnerText(dom0, ctls[c].codeBlock)

\* A variant of line 12 that reads the text of the pre element
\* (codeBlock.parentNode.innerText).
ReadTextOfPre(d, ctls, c) == InnerText(d, d[ctls[c].codeBlock].parent)

\* Line 12: the text the click reads.
ReadText(d, ctls, c) == InnerText(d, ctls[c].codeBlock)

\* A variant of lines 14 and 16 that writes the label of every copy button
\* (document.querySelectorAll('.copy-button')) rather than the closure's own.
SetLabelAll(d, ctls, c, label) ==
    [n \in 1..Len(d) |-> IF d[n].cls = ButtonClass THEN [d[n] EXCEPT !.text = label]
                                                   ELSE d[n]]

\* Lines 14-17, the fulfilment callback: the label, then the timeout.
SetLabel(d, ctls, c, label) == [d EXCEPT ![ctls[c].copyButton].text = label]

\* A variant of lines 14-17 without the setTimeout of lines 15-17.
OnFulfilledNoTimeout(st, c) ==
    [dom |-> SetLabel(st.dom, st.controls, c, CopiedLabel),
     timers |-> st.timers]

\* A variant of lines 13-17 whose callback does nothing once a request of the
\* page has failed (a flag set on failure and never cleared).
OnFulfilledUnlessFailed(st, c) ==
    IF st.hostErrors.unhandledrejection > 0
    THEN [dom |-> st.dom, timers |-> st.timers]
    ELSE [dom |-> SetLabel(st.dom, st.controls, c, CopiedLabel),
          timers |-> Append(st.timers, Timer(c))]

\* A variant of lines 14-17 that cancels the control's pending timeouts before
\* it sets the new one (clearTimeout).
OnFulfilledDebounced(st, c) ==
    [dom |-> SetLabel(st.dom, st.controls, c, CopiedLabel),
     timers |-> Append(SelectSeq(st.timers, LAMBDA t : t.ctl # c), Timer(c))]

OnFulfilled(st, c) ==
    [dom |-> SetLabel(st.dom, st.controls, c, CopiedLabel),
     timers |-> Append(st.timers, Timer(c))]

\* A variant of line 13 with finally(callback) for then(callback): the
\* callback runs on rejection too, and the rejection is still unhandled.
OnRejectedAsFulfilled(st, c) ==
    [dom |-> SetLabel(st.dom, st.controls, c, CopiedLabel),
     timers |-> Append(st.timers, Timer(c)),
     hostErrors |-> [st.hostErrors EXCEPT !.unhandledrejection = @ + 1]]

\* A variant of line 13 with a rejection handler that puts "Copy" back
\* (catch(() => { copyButton.textContent = 'Copy'; })).
OnRejectedReset(st, c) ==
    [dom |-> SetLabel(st.dom, st.controls, c, CopyLabel),
     timers |-> st.timers,
     hostErrors |-> [st.hostErrors EXCEPT !.unhandledrejection = @ + 1]]

\* A rejected promise has no rejection handler (line 13 passes one callback to
\* then): nothing of the page changes, and the rejection is reported to the
\* window as an unhandledrejection event.
OnRejected(st, c) ==
    [dom |-> st.dom,
     timers |-> st.timers,
     hostErrors |-> [st.hostErrors EXCEPT !.unhandledrejection = @ + 1]]

\* Line 13 with navigator.clipboard undefined: reading writeText of undefined
\* throws a TypeError out of the listener, reported to the window as an error
\* event; the rest of the listener does not run.
OnClickNoClipboard(st, c) ==
    [dom |-> st.dom,
     timers |-> st.timers,
     hostErrors |-> [st.hostErrors EXCEPT !.error = @ + 1]]

\* A variant of line 16 that puts "Copy" back only when no later timeout of
\* the control is waiting (a counter of pending timeouts in the closure).
OnTimeoutIfLast(d, ctls, c) ==
    IF Len(SelectSeq(timers, LAMBDA t : t.ctl = c)) > 1
    THEN d
    ELSE [d EXCEPT ![ctls[c].copyButton].text = CopyLabel]

\* A variant of line 16 that leaves the label alone.
OnTimeoutKeep(d, ctls, c) == d

\* Lines 15-17, the timeout callback.
OnTimeout(d, ctls, c) == SetLabel(d, ctls, c, CopyLabel)

Label(c) == dom[controls[c].copyButton].text

Page == [dom |-> dom, controls |-> controls, timers |-> timers, hostErrors |-> hostErrors]

----------------------------------------------------------------------------
(* The state machine.                                                      *)

NoErrors == [error |-> 0, unhandledrejection |-> 0]

\* The state when the page's scripts have run: the script of copy.js was
\* included `included` times, each run of it registered one listener (line 1),
\* and DOMContentLoaded either is still to come or (late) has been dispatched.
InitWith(documents, included, late) ==
    /\ dom0 \in documents
    /\ dom = dom0
    /\ listeners \in included
    /\ runs = 0
    /\ lateScript \in late
    /\ controls = <<>>
    /\ clipboardPresent \in BOOLEAN
    /\ requests = EmptyBag
    /\ timers = <<>>
    /\ hostErrors = NoErrors
    /\ clicks = 0
    /\ elapsed = <<>>

\* The script included once, ahead of DOMContentLoaded.
InitOn(documents) == InitWith(documents, {1}, {FALSE})

Init == InitOn(LiveDocuments)
InitAttach == InitOn(Documents)

\* A variant of line 1 that listens for an event the browser never fires
\* ('DOMContentLoad').
LoadWrongEvent ==
    /\ FALSE
    /\ UNCHANGED vars

\* The browser fires DOMContentLoaded and runs the listener of line 1.  The
\* event is dispatched once: a listener registered after it never runs.
Load ==
    /\ listeners > 0
    /\ ~lateScript
    /\ LET st == OnDOMContentLoaded(dom, controls)
       IN /\ dom' = st.dom
          /\ controls' = st.controls
          /\ elapsed' = elapsed \o [i \in 1..(Len(st.controls) - Len(controls)) |->
                                       [first |-> Never, last |-> Never]]
    /\ listeners' = listeners - 1
    /\ runs' = runs + 1
    /\ UNCHANGED <<dom0, lateScript, clipboardPresent, requests, timers, hostErrors,
                   clicks>>

\* A variant of lines 11-13 that writes "Copied!" at the click, ahead of the
\* clipboard's answer.
ClickOptimistic(c) ==
    /\ clicks < MaxClicks
    /\ clicks' = clicks + 1
    /\ IF clipboardPresent
       THEN /\ requests' = requests (+) SetToBag({Request(c, ReadText(dom, controls, c))})
            /\ dom' = SetLabel(dom, controls, c, CopiedLabel)
            /\ UNCHANGED <<timers, hostErrors>>
       ELSE LET st == OnClickNoClipboard(Page, c)
            IN /\ dom' = st.dom
               /\ timers' = st.timers
               /\ hostErrors' = st.hostErrors
               /\ UNCHANGED requests
    /\ UNCHANGED <<dom0, listeners, runs, lateScript, controls, clipboardPresent, elapsed>>

\* A variant of lines 11-13 that ignores a click while a request of the control
\* is unresolved (the button disabled until the promise settles).
ClickUnlessPending(c) ==
    /\ clicks < MaxClicks
    /\ clicks' = clicks + 1
    /\ IF clipboardPresent
       THEN /\ requests' = IF \E r \in BagToSet(requests) : r.ctl = c
                           THEN requests
                           ELSE requests (+) SetToBag({Request(c, ReadText(dom, controls, c))})
            /\ UNCHANGED <<dom, timers, hostErrors>>
       ELSE LET st == OnClickNoClipboard(Page, c)
            IN /\ dom' = st.dom
               /\ timers' = st.timers
               /\ hostErrors' = st.hostErrors
               /\ UNCHANGED requests
    /\ UNCHANGED <<dom0, listeners, runs, lateScript, controls, clipboardPresent, elapsed>>

\* A variant of lines 12-13 that returns when there is no text to copy
\* (if (!text) return;).
ClickSkipEmpty(c) ==
    /\ clicks < MaxClicks
    /\ clicks' = clicks + 1
    /\ IF clipboardPresent
       THEN /\ requests' = IF ReadText(dom, controls, c) = <<>>
                           THEN requests
                           ELSE requests (+) SetToBag({Request(c, ReadText(dom, controls, c))})
            /\ UNCHANGED <<dom, timers, hostErrors>>
       ELSE LET st == OnClickNoClipboard(Page, c)
            IN /\ dom' = st.dom
               /\ timers' = st.timers
               /\ hostErrors' = st.hostErrors
               /\ UNCHANGED requests
    /\ UNCHANGED <<dom0, listeners, runs, lateScript, controls, clipboardPresent, elapsed>>

\* The user clicks the button of control c: the listener of lines 11-19 runs up
\* to the return of writeText.
Click(c) ==
    /\ clicks < MaxClicks
    /\ clicks' = clicks + 1
    /\ IF clipboardPresent
       THEN /\ requests' = requests (+) SetToBag({Request(c, ReadText(dom, controls, c))})
            /\ UNCHANGED <<dom, timers, hostErrors>>
       ELSE LET st == OnClickNoClipboard(Page, c)
            IN /\ dom' = st.dom
               /\ timers' = st.timers
               /\ hostErrors' = st.hostErrors
               /\ UNCHANGED requests
    /\ UNCHANGED <<dom0, listeners, runs, lateScript, controls, clipboardPresent, elapsed>>

\* The clipboard fulfils the promise of request r.
Fulfil(r) ==
    /\ LET st == OnFulfilled(Page, r.ctl)
       IN /\ dom' = st.dom
          /\ timers' = st.timers
    /\ requests' = requests (-) SetToBag({r})
    /\ elapsed' = [elapsed EXCEPT ![r.ctl] =
                      [first |-> IF @.first = Never THEN 0 ELSE @.first, last |-> 0]]
    /\ UNCHANGED <<dom0, listeners, runs, lateScript, controls, clipboardPresent, hostErrors, clicks>>

\* The clipboard rejects the promise of request r.
Reject(r) ==
    /\ LET st == OnRejected(Page, r.ctl)
       IN /\ dom' = st.dom
          /\ timers' = st.timers
          /\ hostErrors' = st.hostErrors
    /\ requests' = requests (-) SetToBag({r})
    /\ UNCHANGED <<dom0, listeners, runs, lateScript, controls, clipboardPresent, clicks, elapsed>>

\* The oldest timeout has waited its delay and its callback runs.  All timeouts
\* have the same delay, so they run in the order they were set.
Timeout ==
    /\ timers # <<>>
    /\ Head(timers).rem = 0
    /\ dom' = OnTimeout(dom, controls, Head(timers).ctl)
    /\ timers' = Tail(timers)
    /\ UNCHANGED <<dom0, listeners, runs, lateScript, controls, clipboardPresent,
                   requests, hostErrors, clicks, elapsed>>

Max(a, b) == IF a > b THEN a ELSE b
Min(a, b) == IF a < b THEN a ELSE b
Later(t) == IF t = Never THEN Never ELSE Min(t + TickMs, DELAY)

\* TickMs milliseconds pass.  A timeout that is due may still be waiting for the
\* event loop; elapsed times stop counting at DELAY ("DELAY or more").
Tick ==
    /\ timers' = [i \in 1..Len(timers) |->
                     [timers[i] EXCEPT !.rem = Max(@ - TickMs, 0)]]
    /\ elapsed' = [i \in 1..Len(elapsed) |->
                     [first |-> Later(elapsed[i].first), last |-> Later(elapsed[i].last)]]
    /\ UNCHANGED <<dom, dom0, listeners, runs, lateScript, controls, clipboardPresent,
                   requests, hostErrors, clicks>>

\* The host page rewrites the text of a code block.
CodeTexts(d) ==
    { n \in 1..Len(d) : /\ d[n].tag = "#text"
                        /\ d[d[n].parent].tag = "code"
                        /\ HasAncestor(d, n, "pre") }

SetText(n, t) ==
    /\ listeners = 0
    /\ dom[n].text # t
    /\ dom' = [dom EXCEPT ![n].text = t]
    /\ UNCHANGED <<dom0, listeners, runs, lateScript, controls, clipboardPresent,
                   requests, timers, hostErrors, clicks, elapsed>>

\* What happens on a page besides the dispatch of DOMContentLoaded.
Events ==
    \/ \E c \in 1..Len(controls) : Click(c)
    \/ \E r \in BagToSet(requests) : Fulfil(r)
    \/ \E r \in BagToSet(requests) : Reject(r)
    \/ Timeout
    \/ Tick
    \/ \E n \in CodeTexts(dom), t \in Texts : SetText(n, t)

Next ==
    \/ Load
    \/ Events

\* The whole life of a page.
Spec == Init /\ [][Next]_vars

\* The pass alone, over every page.
NextAttach == Load
SpecAttach == InitAttach /\ [][NextAttach]_vars

----------------------------------------------------------------------------
(* What the claims speak of.                                               *)

Nodes(d) == 1..Len(d)
Controls == 1..Len(controls)

\* A code block: a code element below a pre element.
CodeBlocks(d) == { n \in Nodes(d) : d[n].tag = "code" /\ HasAncestor(d, n, "pre") }

\* The copy controls in the page: the buttons that are some node's child.
Buttons(d) == { n \in Nodes(d) : d[n].tag = "button" /\ d[n].parent # NoParent }

\* How often x occurs among the children of the nodes of d.
RECURSIVE Occurrences(_, _, _)
Occurrences(d, x, n) ==
    IF n = 0 THEN 0
    ELSE Cardinality({ i \in 1..Len(d[n].kids) : d[n].kids[i] = x }) + Occurrences(d, x, n - 1)

\* x is the child of p right before y.
RightBefore(d, p, x, y) ==
    \E i \in 1..(Len(d[p].kids) - 1) : d[p].kids[i] = x /\ d[p].kids[i + 1] = y

\* x is a child of p before y, with nothing but copy controls between them.
BeforeThroughButtons(d, p, x, y) ==
    \E i, j \in 1..Len(d[p].kids) :
        /\ i < j
        /\ d[p].kids[i] = x
        /\ d[p].kids[j] = y
        /\ \A m \in (i + 1)..(j - 1) : d[d[p].kids[m]].tag = "button"

PassDone == listeners = 0

----------------------------------------------------------------------------
(* C1: for every document with N code blocks, after one run of the pass    *)
(* exactly N copy controls exist, and control -> code block is a           *)
(* bijection: every code block has a control, no two controls share one.   *)
C1_OneControlPerBlock ==
    PassDone =>
        /\ Cardinality(Buttons(dom)) = Cardinality(CodeBlocks(dom0))
        /\ Len(controls) = Cardinality(CodeBlocks(dom0))
        /\ \A b \in CodeBlocks(dom0) : \E c \in Controls : controls[c].codeBlock = b
        /\ \A c1, c2 \in Controls :
              (controls[c1].codeBlock = controls[c2].codeBlock
               \/ controls[c1].copyButton = controls[c2].copyButton) => c1 = c2
        /\ \A c \in Controls : controls[c].copyButton \in Buttons(dom)

\* Two code blocks next to a code element that is no code block, after the pass.
C1_Witness ==
    /\ PassDone
    /\ Len(controls) = 2
    /\ \E n \in Nodes(dom0) : dom0[n].tag = "code" /\ n \notin CodeBlocks(dom0)

C10_EmptyPassChangesNothing ==
    CodeBlocks(dom0) = {} =>
        /\ ~PassDone => ENABLED Load
        /\ PassDone => /\ controls = <<>>
                       /\ dom = dom0
                       /\ hostErrors = NoErrors

\* A page with a code element and a pre element but no code block, after the pass.
C10_Witness ==
    /\ PassDone
    /\ CodeBlocks(dom0) = {}
    /\ \E n, m \in Nodes(dom0) : dom0[n].tag = "code" /\ dom0[m].tag = "pre"

----------------------------------------------------------------------------
(* The claims about one control's callbacks.                               *)

MaxControls == MaxShapes     \* a live page has one code block per fragment

Labels == {CopyLabel, CopiedLabel}
Pending(c) == \E i \in 1..Len(timers) : timers[i].ctl = c
InFlight(c) == \E r \in BagToSet(requests) : r.ctl = c
Fulfilled(c) == elapsed[c].last # Never

\* The step is a click / the fulfilment of a request of c / a rejection.
ClickStep == clicks' = clicks + 1
FulfilStep(c) == Len(timers') = Len(timers) + 1 /\ timers'[Len(timers')].ctl = c
RejectStep == hostErrors'.unhandledrejection = hostErrors.unhandledrejection + 1

(* C2: with a clipboard to write to, each click of a control issues        *)
(* exactly one request, which carries the text its own code block holds    *)
(* at that moment; no other step issues a request or changes the text of   *)
(* one that is pending, so k clicks over a text T issue k requests with T. *)
C2_ClickIssuesOneRequest ==
    [][ /\ (ClickStep /\ clipboardPresent) =>
              \E c \in Controls :
                  requests' = requests (+) SetToBag({[ctl |-> c,
                                  text |-> InnerText(dom, controls[c].codeBlock)]})
        /\ ~ClickStep => requests' \sqsubseteq requests ]_vars

\* Requests of two controls pending with different texts, one of them not the
\* text the block had when the pass ran; and the same request pending twice.
C2_Witness ==
    \/ \E r1, r2 \in BagToSet(requests) :
          /\ r1.ctl # r2.ctl
          /\ r1.text # r2.text
          /\ r1.text # InnerText(dom0, controls[r1.ctl].codeBlock)
          /\ r1.text # InnerText(dom, controls[r1.ctl].codeBlock)
    \/ \E r \in BagToSet(requests) : CopiesIn(r, requests) = 2 /\ r.text = <<>>

(* C3 as claimed, read in the claim's favour (time counted from the        *)
(* fulfilment, and only when no due timeout is still waiting to run): at   *)
(* every time 2000 ms or more after a fulfilment of a control its label    *)
(* is "Copy", whatever other clicks follow.                                *)
C3_CopyAgainAfterDelay ==
    \A c \in Controls :
        /\ dom[controls[c].copyButton].text \in Labels
        /\ (/\ elapsed[c].first = DELAY
            /\ \A i \in 1..Len(timers) : timers[i].ctl = c => timers[i].rem > 0)
           => dom[controls[c].copyButton].text = CopyLabel

(* C3, amended: a fulfilment sets the label to "Copied!" at once; the      *)
(* label is never anything but "Copy" or "Copied!"; and at every time at   *)
(* which no timeout of the control is pending any more, which is never     *)
(* earlier than 2000 ms after its latest fulfilment, the label is "Copy".  *)
C3_CopyAgainOnceTimersRan ==
    /\ [](\A c \in Controls :
             /\ dom[controls[c].copyButton].text \in Labels
             /\ (Fulfilled(c) /\ ~Pending(c)) =>
                   /\ dom[controls[c].copyButton].text = CopyLabel
                   /\ elapsed[c].last = DELAY)
    /\ [][\A c \in Controls :
             FulfilStep(c) => dom'[controls[c].copyButton].text = CopiedLabel]_vars

\* A control fulfilled twice, 2000 ms after the second, all its timeouts run.
C3_Witness ==
    \E c \in Controls :
        /\ elapsed[c].last = DELAY
        /\ clicks = 2
        /\ hostErrors = NoErrors
        /\ ~InFlight(c)
        /\ ~Pending(c)
        /\ Label(c) = CopyLabel

(* C4: in every reachable state the label of every copy control is "Copy"  *)
(* or "Copied!", and a control the pass created shows "Copy" until a       *)
(* request of its own is fulfilled.                                        *)
C4_TwoLabels ==
    /\ \A b \in Buttons(dom) : dom[b].text \in Labels
    /\ \A c \in Controls : ~Fulfilled(c) => Label(c) = CopyLabel

\* One control Confirmed and another Default, with a rejection behind and a
\* timeout ahead.
C4_Witness ==
    /\ \E c1, c2 \in Controls : Label(c1) = CopiedLabel /\ Label(c2) = CopyLabel
    /\ hostErrors.unhandledrejection > 0
    /\ timers # <<>>

(* C5: a control that shows "Copied!" eventually shows "Copy" again, given *)
(* that time passes and due timeouts run; a control with no request in     *)
(* flight and no timeout pending shows "Copy", and a label "Copy" changes  *)
(* only by a fulfilment of that control.                                   *)
C5_BackToDefault ==
    /\ \A c \in 1..MaxControls :
          (c \in Controls /\ Label(c) = CopiedLabel)
              ~> (c \in Controls /\ Label(c) = CopyLabel)
    /\ [](\A c \in Controls : (~InFlight(c) /\ ~Pending(c)) => Label(c) = CopyLabel)
    /\ [][\A c \in Controls :
             (Label(c) = CopyLabel /\ dom'[controls[c].copyButton].text # CopyLabel)
                 => FulfilStep(c)]_vars

\* A control Confirmed with two timeouts pending, none of them due.
C5_Witness ==
    \E c \in Controls :
        /\ Label(c) = CopiedLabel
        /\ Len(timers) = 2
        /\ \A i \in 1..Len(timers) : timers[i].ctl = c /\ timers[i].rem > 0

(* C6: when the request of a click fails, nothing is confirmed: the step   *)
(* sets no label, schedules no timeout, and every label is what it was.    *)
C6_FailureSkipsConfirmation ==
    [][RejectStep => (dom' = dom /\ timers' = timers)]_vars

\* A rejection behind, while a control shows "Copied!" and another "Copy".
C6_Witness ==
    /\ hostErrors.unhandledrejection = 1
    /\ \E c \in Controls : Label(c) = CopiedLabel /\ Pending(c)
    /\ \E c \in Controls : Label(c) = CopyLabel /\ ~Fulfilled(c)

(* C7: a failed clipboard request is swallowed by the control: no          *)
(* rejection reaches the host page.                                        *)
C7_RejectionSwallowed == hostErrors.unhandledrejection = 0

(* C8: a click with no clipboard object at all has the same outcome as a   *)
(* click whose request fails: from every reachable state and for every     *)
(* control, the two leave the same labels, the same timeouts and the same  *)
(* report to the host.                                                     *)
C8_AbsentSameAsFailing ==
    \A c \in Controls : OnClickNoClipboard(Page, c) = OnRejected(Page, c)

\* Fairness: the event loop runs a due timeout, and time passes.
FairSpec == Spec /\ WF_vars(Timeout) /\ WF_vars(Tick)

----------------------------------------------------------------------------
(* The state of one control, and the steps that are its events.            *)

\* The pending timeouts / writeText promises of control c, among ts / rq.
TimersOf(ts, c) == SelectSeq(ts, LAMBDA t : t.ctl = c)
RequestsOf(rq, c) == [r \in { x \in DOMAIN rq : x.ctl = c } |-> rq[r]]

\* The label of control c after the step.
LabelAfter(c) == dom'[controls[c].copyButton].text

\* The step runs the timeout callback of control c.
TimeoutStep(c) ==
    /\ timers # <<>>
    /\ Head(timers).ctl = c
    /\ timers' = Tail(timers)

\* The step is an event of control c: a click on it that issued a request, the
\* fulfilment or the rejection of one of its requests, or one of its timeouts.
EventOf(c) ==
    \/ RequestsOf(requests', c) # RequestsOf(requests, c)
    \/ FulfilStep(c)
    \/ TimeoutStep(c)

(* C11: controls do not interfere.  A click on control a, the fulfilment   *)
(* or rejection of one of a's requests, or one of a's timeouts leaves the  *)
(* label, the pending timeouts and the pending requests of every other     *)
(* control b as they were, whatever else is in flight; a click that        *)
(* fails at once (no clipboard) changes no control at all.                 *)
C11_NoInterference ==
    [][/\ (\A a \in Controls :
              EventOf(a) =>
                  \A b \in Controls \ {a} :
                      /\ LabelAfter(b) = Label(b)
                      /\ TimersOf(timers', b) = TimersOf(timers, b)
                      /\ RequestsOf(requests', b) = RequestsOf(requests, b))
        /\ (ClickStep =>
               \A c \in Controls :
                   /\ LabelAfter(c) = Label(c)
                   /\ TimersOf(timers', c) = TimersOf(timers, c))]_vars

\* Two controls in different states at once: one confirmed with its timeout
\* pending, the other still showing "Copy" with a request in flight.
C11_Witness ==
    \E a, b \in Controls :
        /\ a # b
        /\ Label(a) = CopiedLabel /\ Pending(a) /\ ~InFlight(a)
        /\ Label(b) = CopyLabel /\ InFlight(b) /\ ~Pending(b)

----------------------------------------------------------------------------
(* A page whose host removes code blocks after the pass.                   *)

\* s without the element x.
Without(s, x) == SelectSeq(s, LAMBDA k : k # x)

\* The host page removes the code block n from the document (n.remove()).
\* The click listener's closure still holds the element (line 12).
RemoveBlock(n) ==
    /\ listeners = 0
    /\ dom' = [dom EXCEPT ![dom[n].parent].kids = Without(@, n),
                          ![n].parent = NoParent]
    /\ UNCHANGED <<dom0, listeners, runs, lateScript, controls, clipboardPresent,
                   requests, timers, hostErrors, clicks, elapsed>>

NextRemove ==
    \/ Next
    \/ \E n \in CodeBlocks(dom) : RemoveBlock(n)

SpecRemove == Init /\ [][NextRemove]_vars

\* The code block of control c is no longer in the document.
Removed(c) == controls[c].codeBlock \notin CodeBlocks(dom)

(* C12: a copy control never outlives its code block.  Once the code block *)
(* of a control has been removed from the document the control is inert:   *)
(* a click on it issues no clipboard request and changes no label.         *)
C12_RemovedBlockInert ==
    [][\A c \in Controls :
          Removed(c) =>
              /\ BagCardinality(RequestsOf(requests', c))
                     <= BagCardinality(RequestsOf(requests, c))
              /\ (ClickStep => LabelAfter(c) = Label(c))]_vars

----------------------------------------------------------------------------
(* A page that includes the script up to MaxRuns times.  Every inclusion   *)
(* registers a listener (line 1); DOMContentLoaded runs them one after the *)
(* other, and the events of the page come after the dispatch.              *)

\* The pages all of whose blocks are of one of the two live kinds.
UniformDocuments == Pages({"plain"}) \cup Pages({"wrapped"})

InitRerun == InitWith(UniformDocuments, 1..MaxRuns, {FALSE})

NextRerun ==
    \/ Load
    \/ PassDone /\ Events

SpecRerun == InitRerun /\ [][NextRerun]_vars

\* The controls attached to code block b.
ControlsOf(b) == { c \in Controls : controls[c].codeBlock = b }

(* C13: in every reachable state, during the pass and after it, over any  *)
(* sequence of runs of the pass, clicks, completions and timeouts, every   *)
(* code block has at most one copy control.                                *)
C13_AtMostOneControl ==
    \A b \in CodeBlocks(dom) : Cardinality(ControlsOf(b)) <= 1

\* The same of the states in which the pass has run at most once.
C13_AtMostOneControlInOneRun ==
    runs <= 1 => \A b \in CodeBlocks(dom) : Cardinality(ControlsOf(b)) <= 1

\* One run, two blocks with a control each, and the page in use.
C13_Witness ==
    /\ runs = 1
    /\ PassDone
    /\ Cardinality(CodeBlocks(dom)) = 2
    /\ \A b \in CodeBlocks(dom) : Cardinality(ControlsOf(b)) = 1
    /\ \E c \in Controls : Label(c) = CopiedLabel
    /\ requests # EmptyBag

(* C14: the pass is not idempotent.  Every run attaches one more control   *)
(* to each code block: on a page of N code blocks there are 2N controls    *)
(* after two runs, two to each block.                                      *)
C14_EveryRunAttachesAgain ==
    LET N == Cardinality(CodeBlocks(dom0))
    IN /\ Len(controls) = runs * N
       /\ Cardinality(Buttons(dom)) = runs * N
       /\ \A b \in CodeBlocks(dom0) : Cardinality(ControlsOf(b)) = runs
       /\ runs = 2 => Cardinality(Buttons(dom)) = 2 * N

\* Two runs over two code blocks: four controls.
C14_Witness ==
    /\ runs = 2
    /\ Cardinality(CodeBlocks(dom0)) = 2
    /\ Len(controls) = 4
    /\ \A b \in CodeBlocks(dom) :
          \E c1, c2 \in ControlsOf(b) : controls[c1].copyButton # controls[c2].copyButton

----------------------------------------------------------------------------
\* The text of the code block of control c, as a click would read it.
TextOf(c) == ReadText(dom, controls, c)

(* C15: a click on a control whose code block holds no text issues a       *)
(* request that carries the empty text, not a skipped one; when that       *)
(* request is fulfilled the label becomes "Copied!" and a timeout of       *)
(* DELAY ms is set, and the label is "Copy" again later, as for any text.  *)
C15_EmptyTextIsCopied ==
    /\ [][/\ (ClickStep /\ clipboardPresent /\ \A c \in Controls : TextOf(c) = <<>>)
               => \E c \in Controls :
                      requests' = requests (+) SetToBag({Request(c, <<>>)})
          /\ \A c \in Controls :
                (ClickStep /\ TextOf(c) = <<>>
                     /\ RequestsOf(requests', c) # RequestsOf(requests, c))
                    => requests' = requests (+) SetToBag({Request(c, <<>>)})
          /\ \A c \in Controls :
                (Request(c, <<>>) \in BagToSet(requests)
                     /\ requests' = requests (-) SetToBag({Request(c, <<>>)})
                     /\ ~RejectStep)
                    => /\ LabelAfter(c) = CopiedLabel
                       /\ timers' = Append(timers, Timer(c))]_vars
    /\ \A c \in 1..MaxControls :
          (c \in Controls /\ TextOf(c) = <<>> /\ Label(c) = CopiedLabel)
              ~> (c \in Controls /\ Label(c) = CopyLabel)

\* One click on a control of an empty code block, fulfilled.
C15_Witness ==
    \E c \in Controls :
        /\ TextOf(c) = <<>>
        /\ clicks = 1
        /\ requests = EmptyBag
        /\ Label(c) = CopiedLabel
        /\ timers = <<Timer(c)>>

----------------------------------------------------------------------------
(* Two controls side by side, one attached by each branch of lines 23-27,  *)
(* over the same code text, given the same events in the same order: each  *)
(* step of this page is an event of control 1 followed by the same event   *)
(* of control 2.                                                           *)

Unwrapped == 1
Wrapped == 2
PairDocuments ==
    { Build(<<u, w>>, Body) : u \in {"plain", "lead", "boxed"},
                              w \in {"wrapped", "wrappedLead"} }

InitPair == InitOn(PairDocuments)

\* The page after a callback that returned the document and timers of `out`.
Then(st, out) == [st EXCEPT !.dom = out.dom, !.timers = out.timers]

\* Both buttons are clicked.
PairClick ==
    /\ PassDone
    /\ clicks + 2 <= 2 * MaxClicks
    /\ clicks' = clicks + 2
    /\ IF clipboardPresent
       THEN /\ requests' = requests
                             (+) SetToBag({Request(Unwrapped, ReadText(dom, controls, Unwrapped))})
                             (+) SetToBag({Request(Wrapped, ReadText(dom, controls, Wrapped))})
            /\ UNCHANGED <<dom, timers, hostErrors>>
       ELSE LET st1 == OnClickNoClipboard(Page, Unwrapped)
                st2 == OnClickNoClipboard([Then(Page, st1) EXCEPT !.hostErrors = st1.hostErrors],
                                          Wrapped)
            IN /\ dom' = st2.dom
               /\ timers' = st2.timers
               /\ hostErrors' = st2.hostErrors
               /\ UNCHANGED requests
    /\ UNCHANGED <<dom0, listeners, runs, lateScript, controls, clipboardPresent, elapsed>>

\* The clipboard fulfils a request of each control, the two of one PairClick.
PairFulfil(r1, r2) ==
    /\ r1.ctl = Unwrapped /\ r2.ctl = Wrapped /\ r1.text = r2.text
    /\ LET st1 == OnFulfilled(Page, r1.ctl)
           st2 == OnFulfilled(Then(Page, st1), r2.ctl)
       IN /\ dom' = st2.dom
          /\ timers' = st2.timers
    /\ requests' = requests (-) SetToBag({r1}) (-) SetToBag({r2})
    /\ elapsed' = [c \in 1..Len(elapsed) |->
                      [first |-> IF elapsed[c].first = Never THEN 0 ELSE elapsed[c].first,
                       last |-> 0]]
    /\ UNCHANGED <<dom0, listeners, runs, lateScript, controls, clipboardPresent,
                   hostErrors, clicks>>

\* The clipboard rejects a request of each control, the two of one PairClick.
PairReject(r1, r2) ==
    /\ r1.ctl = Unwrapped /\ r2.ctl = Wrapped /\ r1.text = r2.text
    /\ LET st1 == OnRejected(Page, r1.ctl)
           st2 == OnRejected([Then(Page, st1) EXCEPT !.hostErrors = st1.hostErrors], r2.ctl)
       IN /\ dom' = st2.dom
          /\ timers' = st2.timers
          /\ hostErrors' = st2.hostErrors
    /\ requests' = requests (-) SetToBag({r1}) (-) SetToBag({r2})
    /\ UNCHANGED <<dom0, listeners, runs, lateScript, controls, clipboardPresent,
                   clicks, elapsed>>

\* The oldest timeout of each control runs.
PairTimeout ==
    /\ Len(timers) >= 2
    /\ timers[1].rem = 0 /\ timers[2].rem = 0
    /\ timers[1].ctl # timers[2].ctl
    /\ dom' = OnTimeout(OnTimeout(dom, controls, timers[1].ctl), controls, timers[2].ctl)
    /\ timers' = Tail(Tail(timers))
    /\ UNCHANGED <<dom0, listeners, runs, lateScript, controls, clipboardPresent,
                   requests, hostErrors, clicks, elapsed>>

\* The host page rewrites the text of both code blocks.
PairSetText(t) ==
    /\ PassDone
    /\ \E n \in CodeTexts(dom) : dom[n].text # t
    /\ dom' = [n \in 1..Len(dom) |->
                  IF n \in CodeTexts(dom) THEN [dom[n] EXCEPT !.text = t] ELSE dom[n]]
    /\ UNCHANGED <<dom0, listeners, runs, lateScript, controls, clipboardPresent,
                   requests, timers, hostErrors, clicks, elapsed>>

NextPair ==
    \/ Load
    \/ PairClick
    \/ \E r1, r2 \in BagToSet(requests) : PairFulfil(r1, r2)
    \/ \E r1, r2 \in BagToSet(requests) : PairReject(r1, r2)
    \/ PairTimeout
    \/ Tick
    \/ \E t \in Texts : PairSetText(t)

SpecPair == InitPair /\ [][NextPair]_vars

\* What control c shows and has pending: its label, the texts of its requests
\* and the times its timeouts still have to wait.
RequestTexts(c) ==
    LET rq == RequestsOf(requests, c)
    IN [t \in { r.text : r \in DOMAIN rq } |-> rq[Request(c, t)]]
TimerRems(c) ==
    LET ts == TimersOf(timers, c) IN [i \in 1..Len(ts) |-> ts[i].rem]
Observed(c) == [label |-> Label(c), requests |-> RequestTexts(c), timers |-> TimerRems(c)]

(* C16: what a control does on activation does not depend on the branch of *)
(* the placement that attached it.  Given the same code text and the same  *)
(* clicks, clipboard outcomes and timeouts in the same order, a control    *)
(* placed before the pre of a code-container and a control placed inside   *)
(* an unwrapped pre issue requests of the same texts, show the same label  *)
(* and have the same timeouts pending at every point.                      *)
C16_PlacementDoesNotMatter ==
    PassDone => Observed(Unwrapped) = Observed(Wrapped)

\* The button of the one control is inside the pre of its block, the button
\* of the other is a child of the code-container; both have been clicked twice,
\* with a request fulfilled and one still in flight.
C16_Witness ==
    /\ PassDone
    /\ dom[controls[Unwrapped].copyButton].parent = dom[controls[Unwrapped].codeBlock].parent
    /\ ClassListContains(dom, dom[controls[Wrapped].copyButton].parent, ContainerClass)
    /\ clicks = 4
    /\ Label(Unwrapped) = CopiedLabel /\ Label(Wrapped) = CopiedLabel
    /\ InFlight(Unwrapped) /\ InFlight(Wrapped)

----------------------------------------------------------------------------
(* A page whose script may run late: a script element that is async, or    *)
(* added by another script, can run after DOMContentLoaded was dispatched. *)

InitLate == InitWith(LiveDocuments, {1}, BOOLEAN)

SpecLate == InitLate /\ [][Next]_vars

\* Fairness: the browser dispatches DOMContentLoaded when the document is
\* parsed, the event loop runs a due timeout, and time passes.
FairLate == SpecLate /\ WF_vars(Load) /\ WF_vars(Timeout) /\ WF_vars(Tick)

NoControls == controls = <<>> /\ Buttons(dom) = {}

(* C17: the pass runs exactly once in the life of a page, in reaction to   *)
(* DOMContentLoaded: there is no control before it has run, it never runs  *)
(* a second time, and it does eventually run, whether the script           *)
(* registered its listener before or after the event was dispatched.       *)
C17_PassEventuallyRunsOnce ==
    /\ [](runs = 0 => NoControls)
    /\ [](runs <= 1)
    /\ <>(runs = 1)

\* The same, with the run promised only to a listener registered in time.
C17_PassRunsOnceIfRegisteredInTime ==
    /\ [](runs = 0 => NoControls)
    /\ [](runs <= 1)
    /\ (~lateScript => <>(runs = 1))

\* The listener was registered in time and has run, on a page with blocks.
C17_Witness ==
    /\ ~lateScript
    /\ runs = 1
    /\ listeners = 0
    /\ ~NoControls
    /\ clicks = 0

----------------------------------------------------------------------------
\* The step settles request r without a rejection: its promise is fulfilled.
FulfilmentOf(r) ==
    /\ r \in BagToSet(requests)
    /\ requests' = requests (-) SetToBag({r})
    /\ ~RejectStep

(* C18: every fulfilment sets a timeout of its own, and a timeout, once    *)
(* set, is never cancelled, merged with another or set back: the queue of  *)
(* timeouts changes only by a fulfilment appending one of DELAY ms, by the *)
(* due head running (which writes "Copy"), or by time passing.  So k        *)
(* fulfilments make k timeouts run, and the label is what the latest of    *)
(* these events wrote: "Copied!" by a fulfilment, "Copy" by a timeout.     *)
C18_OneTimeoutPerSuccess ==
    /\ [][/\ \A r \in BagToSet(requests) :
                FulfilmentOf(r) => /\ timers' = Append(timers, Timer(r.ctl))
                                   /\ LabelAfter(r.ctl) = CopiedLabel
          /\ (timers' # timers) =>
                \/ \E r \in BagToSet(requests) :
                       FulfilmentOf(r) /\ timers' = Append(timers, Timer(r.ctl))
                \/ /\ timers # <<>>
                   /\ Head(timers).rem = 0
                   /\ timers' = Tail(timers)
                   /\ LabelAfter(Head(timers).ctl) = CopyLabel
                \/ /\ Len(timers') = Len(timers)
                   /\ dom' = dom
                   /\ \A i \in 1..Len(timers) :
                         /\ timers'[i].ctl = timers[i].ctl
                         /\ timers'[i].rem <= timers[i].rem
          /\ \A c \in Controls :
                (LabelAfter(c) # Label(c)) =>
                    \/ LabelAfter(c) = CopiedLabel
                          /\ \E r \in BagToSet(requests) : r.ctl = c /\ FulfilmentOf(r)
                    \/ LabelAfter(c) = CopyLabel /\ TimeoutStep(c)]_vars
    /\ (timers # <<>>) ~> (timers = <<>>)

\* Two fulfilments of one control: the timeout of the first has run and has
\* written "Copy", the timeout of the second is still waiting.
C18_Witness ==
    \E c \in Controls :
        /\ Label(c) = CopyLabel
        /\ elapsed[c].first = DELAY
        /\ Len(timers) = 1
        /\ timers[1].ctl = c
        /\ timers[1].rem > 0

----------------------------------------------------------------------------
(* C19: a failed request neither crashes nor blocks the control.  After    *)
(* any number of rejected requests every control can still be clicked,     *)
(* the click issues its request, and a request fulfilled after a failure   *)
(* sets "Copied!" and a timeout of DELAY ms as usual.                      *)
C19_FailureLeavesControlUsable ==
    /\ [](hostErrors.unhandledrejection > 0 =>
             \A c \in Controls : clicks < MaxClicks => ENABLED Click(c))
    /\ [][hostErrors.unhandledrejection > 0 =>
             /\ (ClickStep /\ clipboardPresent) =>
                    \E c \in Controls :
                        requests' = requests (+) SetToBag({Request(c, TextOf(c))})
             /\ \A r \in BagToSet(requests) :
                   FulfilmentOf(r) => /\ LabelAfter(r.ctl) = CopiedLabel
                                      /\ timers' = Append(timers, Timer(r.ctl))]_vars

\* A control with one request rejected and one fulfilled, on a page with no
\* other control.
C19_Witness ==
    /\ Len(controls) = 1
    /\ hostErrors.unhandledrejection = 1
    /\ clicks = 2
    /\ requests = EmptyBag
    /\ Label(1) = CopiedLabel
    /\ timers = <<Timer(1)>>

(* C20: the only way out of the confirmed state is a timeout.  While a     *)
(* control shows "Copied!", no click, fulfilment or rejection makes its    *)
(* label "Copy": the label goes from "Copied!" to "Copy" only in the step  *)
(* that runs a timeout of that control.                                    *)
C20_OnlyTimeoutReverts ==
    [][\A c \in Controls :
          (Label(c) = CopiedLabel /\ LabelAfter(c) # CopiedLabel)
              => /\ TimeoutStep(c)
                 /\ Head(timers).rem = 0
                 /\ LabelAfter(c) = CopyLabel
                 /\ requests' = requests
                 /\ clicks' = clicks
                 /\ hostErrors' = hostErrors]_vars

\* A control clicked again while it shows "Copied!", and that request rejected.
C20_Witness ==
    \E c \in Controls :
        /\ Label(c) = CopiedLabel
        /\ Pending(c)
        /\ clicks = 2
        /\ requests = EmptyBag
        /\ hostErrors.unhandledrejection = 1
        /\ Len(controls) = 1
        /\ elapsed[c].last > 0

----------------------------------------------------------------------------
(* C21: a request in flight suspends only the continuation of the click    *)
(* that issued it.  While requests are unresolved every control, the       *)
(* issuing one included, can be clicked, and the click adds its own        *)
(* request to those in flight; every request in flight can be the next to  *)
(* be fulfilled or rejected, whatever the order of issue.                  *)
C21_RequestsDoNotBlock ==
    /\ [](requests # EmptyBag =>
             /\ \A c \in Controls : clicks < MaxClicks => ENABLED Click(c)
             /\ \A r \in BagToSet(requests) : ENABLED Fulfil(r) /\ ENABLED Reject(r))
    /\ [][(requests # EmptyBag /\ ClickStep) =>
             \E c \in Controls :
                 /\ requests' = requests (+) SetToBag({Request(c, TextOf(c))})
                 /\ BagCardinality(requests') = BagCardinality(requests) + 1]_vars

\* Two unresolved requests of one control, issued by two clicks.
C21_Witness ==
    \E c \in Controls :
        /\ BagCardinality(RequestsOf(requests, c)) = 2
        /\ clicks = 2
        /\ Label(c) = CopyLabel

----------------------------------------------------------------------------
\* The code blocks the controls were attached to, in the order of attaching.
Processed == [c \in 1..Len(controls) |-> controls[c].codeBlock]

(* C22: discover yields a fixed snapshot of the code blocks present when   *)
(* the pass starts and changes nothing.  The buttons inserted while the    *)
(* pass iterates add no block to the list, remove none and reorder none:   *)
(* the list of the document with the buttons in it is the list of the      *)
(* document as rendered, and the pass has processed exactly that list,     *)
(* each block once, in order.                                              *)
C22_StaticSnapshot ==
    /\ QuerySelectorAll(dom) = QuerySelectorAll(dom0)
    /\ ~PassDone => Processed = <<>>
    /\ PassDone => Processed = QuerySelectorAll(dom0)

\* Two code blocks below one pre, the second met after the insertion of the
\* first one's button.
C22_Witness ==
    /\ PassDone
    /\ Len(Processed) = 2
    /\ Processed[1] # Processed[2]
    /\ dom[Processed[1]].parent = dom[Processed[2]].parent
    /\ Cardinality(Buttons(dom)) = 2

----------------------------------------------------------------------------
\* The step is one of the script's: the listener of line 1 runs, or a click
\* listener or one of its callbacks does (a rewrite of text by the host page
\* is none of these).
PassStep == runs' = runs + 1
CallbackStep == ClickStep \/ requests' # requests \/ Len(timers') # Len(timers)

\* The copy buttons of the controls.
ControlButtons == { controls[c].copyButton : c \in Controls }

(* C23: the script only inserts into the document.  The pass adds button   *)
(* elements and nothing else: every element that was there keeps its tag,  *)
(* class, text and parent, and its children keep their order, with buttons *)
(* put between them.  After the pass a click, a completion or a timeout    *)
(* changes nothing but the labels of copy buttons: no node is added,       *)
(* removed or moved, and the controls stay the same.                       *)
C23_OnlyInserts ==
    [][/\ PassStep =>
             /\ Len(dom') >= Len(dom)
             /\ \A n \in Nodes(dom) :
                   /\ dom'[n].tag = dom[n].tag
                   /\ dom'[n].cls = dom[n].cls
                   /\ dom'[n].text = dom[n].text
                   /\ dom'[n].parent = dom[n].parent
                   /\ SelectSeq(dom'[n].kids, LAMBDA k : k <= Len(dom)) = dom[n].kids
             /\ \A n \in Nodes(dom') \ Nodes(dom) :
                   /\ dom'[n].tag = "button"
                   /\ dom'[n].kids = <<>>
                   /\ dom'[n].parent \in Nodes(dom)
             /\ SubSeq(controls', 1, Len(controls)) = controls
       /\ CallbackStep =>
             /\ controls' = controls
             /\ Len(dom') = Len(dom)
             /\ \A n \in Nodes(dom) :
                   /\ [dom'[n] EXCEPT !.text = dom[n].text] = dom[n]
                   /\ dom'[n].text # dom[n].text => n \in ControlButtons]_vars

\* Two controls, both showing "Copied!" with their timeouts pending.
C23_Witness ==
    /\ PassDone
    /\ Len(controls) = 2
    /\ \A c \in Controls : Label(c) = CopiedLabel /\ Pending(c)
    /\ Len(dom) = Len(dom0) + 2

----------------------------------------------------------------------------
(* C24: a control that shows "Copied!" has a timeout of its own pending,   *)
(* in every reachable state: the fulfilment that wrote the label set one,  *)
(* and it runs after every timeout set before it.  No control is left      *)
(* showing "Copied!" with nothing to put "Copy" back.                      *)
C24_ConfirmedHasTimeout ==
    \A c \in Controls : Label(c) = CopiedLabel => TimersOf(timers, c) # <<>>

\* A control showing "Copied!" whose only timeout is due and has not run yet.
C24_Witness ==
    \E c \in Controls :
        /\ Label(c) = CopiedLabel
        /\ TimersOf(timers, c) = <<[ctl |-> c, rem |-> 0]>>
        /\ elapsed[c].last = DELAY

----------------------------------------------------------------------------
(* A page whose host may clear the text of a code block and never writes   *)
(* it back.  Of two requests of one control the one that carries the       *)
(* empty text was then issued by the later click.                          *)

NextClear ==
    \/ Load
    \/ \E c \in 1..Len(controls) : Click(c)
    \/ \E r \in BagToSet(requests) : Fulfil(r)
    \/ \E r \in BagToSet(requests) : Reject(r)
    \/ Timeout
    \/ Tick
    \/ \E n \in CodeTexts(dom) : SetText(n, "")

SpecClear == Init /\ [][NextClear]_vars

IssuedAfter(r1, r2) == r1.ctl = r2.ctl /\ r1.text = <<>> /\ r2.text # <<>>

(* C25: a click does not change a label.  A label becomes "Copied!" only   *)
(* in the step that fulfils a request of its control, never at the click   *)
(* and never while that request is still pending; and what changes a label *)
(* between a click and the answer to its request is an event of an earlier *)
(* click on the control, not of a later one.                               *)
C25_OnlyEarlierClicksChangeLabel ==
    [][/\ ClickStep => \A c \in Controls : LabelAfter(c) = Label(c)
       /\ \A c \in Controls :
             (LabelAfter(c) = CopiedLabel /\ Label(c) # CopiedLabel) =>
                 \E r \in BagToSet(requests) : r.ctl = c /\ FulfilmentOf(r)
       /\ \A r \in BagToSet(requests), pending \in BagToSet(requests') :
             (FulfilmentOf(r) /\ pending.ctl = r.ctl /\ LabelAfter(r.ctl) # Label(r.ctl))
                 => ~IssuedAfter(r, pending)]_vars

\* The same, with the events of every other click on the control, earlier or
\* later, for those of the earlier ones.
C25_ClickLeavesLabel ==
    [][/\ ClickStep => \A c \in Controls : LabelAfter(c) = Label(c)
       /\ \A c \in Controls :
             (LabelAfter(c) = CopiedLabel /\ Label(c) # CopiedLabel) =>
                 \E r \in BagToSet(requests) :
                     /\ r.ctl = c
                     /\ FulfilmentOf(r)
                     /\ BagCardinality(RequestsOf(requests', c))
                            = BagCardinality(RequestsOf(requests, c)) - 1
       /\ \A c \in Controls :
             (InFlight(c) /\ LabelAfter(c) # Label(c)) =>
                 \/ \E r \in BagToSet(requests) : r.ctl = c /\ FulfilmentOf(r)
                 \/ TimeoutStep(c)]_vars

\* A control clicked twice, before and after its text was cleared: the request
\* of the second click has been fulfilled, that of the first is still pending.
C25_Witness ==
    \E c \in Controls :
        /\ clicks = 2
        /\ TextOf(c) = <<>>
        /\ Label(c) = CopiedLabel
        /\ \E r \in BagToSet(requests) : r.ctl = c /\ r.text # <<>>
        /\ Len(controls) = 1

----------------------------------------------------------------------------
(* Pages with a code element inside a code element.                        *)

NestedDocuments == Pages({"plain", "nested"})

InitNested == InitOn(NestedDocuments)

SpecNested == InitNested /\ [][Next]_vars

\* Node n is in the subtree of node a.
RECURSIVE Inside(_, _, _)
Inside(d, a, n) ==
    \/ n = a
    \/ d[n].parent # NoParent /\ Inside(d, a, d[n].parent)

\* The code element of control c is a child of a pre element.
ChildOfPre(c) == dom[dom[controls[c].codeBlock].parent].tag = "pre"

(* C26: a control's button is never put inside the subtree of its own code *)
(* block, so the text of a request of a control whose code element is a    *)
(* child of its pre is the text of the block and holds neither "Copy" nor  *)
(* "Copied!", the labels of a control.                                     *)
C26_TextHoldsNoLabel ==
    /\ \A c \in Controls : ~Inside(dom, controls[c].codeBlock, controls[c].copyButton)
    /\ \A r \in BagToSet(requests) :
          ChildOfPre(r.ctl) =>
              \A i \in 1..Len(r.text) : r.text[i] \notin {CopyLabel, CopiedLabel}

----------------------------------------------------------------------------
(* C27: a timeout reverts the label whatever was fulfilled since it was    *)
(* set.  When a second request of a control is fulfilled while the timeout *)
(* of the first is pending, that timeout writes "Copy" when it runs; so a  *)
(* control shows "Copy" less than DELAY ms after a fulfilment only if a    *)
(* timeout of an earlier fulfilment was pending at that fulfilment, and    *)
(* the timeout set by the fulfilment itself is then still pending.         *)
C27_EarlierTimeoutRevertsEarly ==
    /\ [][\A c \in Controls :
             TimeoutStep(c) =>
                 /\ LabelAfter(c) = CopyLabel
                 /\ elapsed[c].last < DELAY =>
                        /\ Len(TimersOf(timers, c)) >= 2
                        /\ elapsed[c].first = DELAY]_vars
    /\ [](\A c \in Controls :
             (Label(c) = CopyLabel /\ Fulfilled(c) /\ elapsed[c].last < DELAY) =>
                 /\ elapsed[c].first = DELAY
                 /\ Pending(c))

\* A control showing "Copy" less than DELAY ms after its latest fulfilment.
C27_Witness ==
    \E c \in Controls :
        /\ Label(c) = CopyLabel
        /\ Fulfilled(c)
        /\ elapsed[c].last < DELAY
        /\ Pending(c)

====
